---------------------------- MODULE Spec2Model ----------------------------
(***************************************************************************)
(* Model of kmzAutomationBulk.py: the KMZ overlay bulk automation.         *)
(*                                                                         *)
(* Strings are sequences of characters, so that rsplit, basename,          *)
(* splitext, strip and the digit parsing are computed the way the Python   *)
(* code computes them.  An ASCII character is the one-character string; a  *)
(* character outside ASCII is written as its code point, "U+00A0" for the  *)
(* no-break space, "U+212A" for the Kelvin sign.  An integer of the code   *)
(* is the sequence of its decimal digits, as a Python int is unbounded.    *)
(* An XML element tree is a store of numbered elements (tag, text, ordered *)
(* children, tail); element identity is the element's number, as object    *)
(* identity is in ElementTree.                                             *)
(***************************************************************************)
EXTENDS Integers, Sequences, FiniteSets, TLC

VARIABLES
    pc,             \* position of the script
    name_str,       \* argument of parse_trailing_number
    key,            \* value returned by parse_trailing_number
    units,          \* the unit directories of the main folder, in listdir order
    idx,            \* main(): index of the unit `subf` being processed
    success_count,  \* main(): success_count
    png_files,      \* process_subfolder(): file names of png_files_abs
    temp_dirs,      \* units whose temp_extract_<name> directory exists on disk
    out_kmz,        \* units whose "<name> - transparent.kmz" is in the output folder
    kml_doc,        \* the element tree last saved by tree.write
    copied,         \* listing of <temp>/<name>/, the copies made for the current unit
    ret,            \* value returned by process_subfolder for the current unit
    err,            \* the exception that is propagating, or "none"
    processed,      \* units process_subfolder has been called on
    dialog          \* what main() finally shows: <<kind, count>>

vars == << pc, name_str, key, units, idx, success_count, png_files, temp_dirs,
           out_kmz, kml_doc, copied, ret, err, processed, dialog >>

(***************************************************************************)
(* Bounds of the model.                                                    *)
(***************************************************************************)
MaxLen == 4
MaxAssets == 2
MaxOverlays == 2
MaxUnits == 2

(***************************************************************************)
(* Strings.                                                                *)
(***************************************************************************)
Digits == << "0", "1", "2", "3", "4", "5", "6", "7", "8", "9" >>

\* the decimal digits \d matches and int() reads (Unicode category Nd): 66
\* runs of ten, each from its zero to its nine
DecimalDigits ==
    << Digits,
       << "U+0660", "U+0661", "U+0662", "U+0663", "U+0664", "U+0665", "U+0666", "U+0667", "U+0668", "U+0669" >>,
       << "U+06F0", "U+06F1", "U+06F2", "U+06F3", "U+06F4", "U+06F5", "U+06F6", "U+06F7", "U+06F8", "U+06F9" >>,
       << "U+07C0", "U+07C1", "U+07C2", "U+07C3", "U+07C4", "U+07C5", "U+07C6", "U+07C7", "U+07C8", "U+07C9" >>,
       << "U+0966", "U+0967", "U+0968", "U+0969", "U+096A", "U+096B", "U+096C", "U+096D", "U+096E", "U+096F" >>,
       << "U+09E6", "U+09E7", "U+09E8", "U+09E9", "U+09EA", "U+09EB", "U+09EC", "U+09ED", "U+09EE", "U+09EF" >>,
       << "U+0A66", "U+0A67", "U+0A68", "U+0A69", "U+0A6A", "U+0A6B", "U+0A6C", "U+0A6D", "U+0A6E", "U+0A6F" >>,
       << "U+0AE6", "U+0AE7", "U+0AE8", "U+0AE9", "U+0AEA", "U+0AEB", "U+0AEC", "U+0AED", "U+0AEE", "U+0AEF" >>,
       << "U+0B66", "U+0B67", "U+0B68", "U+0B69", "U+0B6A", "U+0B6B", "U+0B6C", "U+0B6D", "U+0B6E", "U+0B6F" >>,
       << "U+0BE6", "U+0BE7", "U+0BE8", "U+0BE9", "U+0BEA", "U+0BEB", "U+0BEC", "U+0BED", "U+0BEE", "U+0BEF" >>,
       << "U+0C66", "U+0C67", "U+0C68", "U+0C69", "U+0C6A", "U+0C6B", "U+0C6C", "U+0C6D", "U+0C6E", "U+0C6F" >>,
       << "U+0CE6", "U+0CE7", "U+0CE8", "U+0CE9", "U+0CEA", "U+0CEB", "U+0CEC", "U+0CED", "U+0CEE", "U+0CEF" >>,
       << "U+0D66", "U+0D67", "U+0D68", "U+0D69", "U+0D6A", "U+0D6B", "U+0D6C", "U+0D6D", "U+0D6E", "U+0D6F" >>,
       << "U+0DE6", "U+0DE7", "U+0DE8", "U+0DE9", "U+0DEA", "U+0DEB", "U+0DEC", "U+0DED", "U+0DEE", "U+0DEF" >>,
       << "U+0E50", "U+0E51", "U+0E52", "U+0E53", "U+0E54", "U+0E55", "U+0E56", "U+0E57", "U+0E58", "U+0E59" >>,
       << "U+0ED0", "U+0ED1", "U+0ED2", "U+0ED3", "U+0ED4", "U+0ED5", "U+0ED6", "U+0ED7", "U+0ED8", "U+0ED9" >>,
       << "U+0F20", "U+0F21", "U+0F22", "U+0F23", "U+0F24", "U+0F25", "U+0F26", "U+0F27", "U+0F28", "U+0F29" >>,
       << "U+1040", "U+1041", "U+1042", "U+1043", "U+1044", "U+1045", "U+1046", "U+1047", "U+1048", "U+1049" >>,
       << "U+1090", "U+1091", "U+1092", "U+1093", "U+1094", "U+1095", "U+1096", "U+1097", "U+1098", "U+1099" >>,
       << "U+17E0", "U+17E1", "U+17E2", "U+17E3", "U+17E4", "U+17E5", "U+17E6", "U+17E7", "U+17E8", "U+17E9" >>,
       << "U+1810", "U+1811", "U+1812", "U+1813", "U+1814", "U+1815", "U+1816", "U+1817", "U+1818", "U+1819" >>,
       << "U+1946", "U+1947", "U+1948", "U+1949", "U+194A", "U+194B", "U+194C", "U+194D", "U+194E", "U+194F" >>,
       << "U+19D0", "U+19D1", "U+19D2", "U+19D3", "U+19D4", "U+19D5", "U+19D6", "U+19D7", "U+19D8", "U+19D9" >>,
       << "U+1A80", "U+1A81", "U+1A82", "U+1A83", "U+1A84", "U+1A85", "U+1A86", "U+1A87", "U+1A88", "U+1A89" >>,
       << "U+1A90", "U+1A91", "U+1A92", "U+1A93", "U+1A94", "U+1A95", "U+1A96", "U+1A97", "U+1A98", "U+1A99" >>,
       << "U+1B50", "U+1B51", "U+1B52", "U+1B53", "U+1B54", "U+1B55", "U+1B56", "U+1B57", "U+1B58", "U+1B59" >>,
       << "U+1BB0", "U+1BB1", "U+1BB2", "U+1BB3", "U+1BB4", "U+1BB5", "U+1BB6", "U+1BB7", "U+1BB8", "U+1BB9" >>,
       << "U+1C40", "U+1C41", "U+1C42", "U+1C43", "U+1C44", "U+1C45", "U+1C46", "U+1C47", "U+1C48", "U+1C49" >>,
       << "U+1C50", "U+1C51", "U+1C52", "U+1C53", "U+1C54", "U+1C55", "U+1C56", "U+1C57", "U+1C58", "U+1C59" >>,
       << "U+A620", "U+A621", "U+A622", "U+A623", "U+A624", "U+A625", "U+A626", "U+A627", "U+A628", "U+A629" >>,
       << "U+A8D0", "U+A8D1", "U+A8D2", "U+A8D3", "U+A8D4", "U+A8D5", "U+A8D6", "U+A8D7", "U+A8D8", "U+A8D9" >>,
       << "U+A900", "U+A901", "U+A902", "U+A903", "U+A904", "U+A905", "U+A906", "U+A907", "U+A908", "U+A909" >>,
       << "U+A9D0", "U+A9D1", "U+A9D2", "U+A9D3", "U+A9D4", "U+A9D5", "U+A9D6", "U+A9D7", "U+A9D8", "U+A9D9" >>,
       << "U+A9F0", "U+A9F1", "U+A9F2", "U+A9F3", "U+A9F4", "U+A9F5", "U+A9F6", "U+A9F7", "U+A9F8", "U+A9F9" >>,
       << "U+AA50", "U+AA51", "U+AA52", "U+AA53", "U+AA54", "U+AA55", "U+AA56", "U+AA57", "U+AA58", "U+AA59" >>,
       << "U+ABF0", "U+ABF1", "U+ABF2", "U+ABF3", "U+ABF4", "U+ABF5", "U+ABF6", "U+ABF7", "U+ABF8", "U+ABF9" >>,
       << "U+FF10", "U+FF11", "U+FF12", "U+FF13", "U+FF14", "U+FF15", "U+FF16", "U+FF17", "U+FF18", "U+FF19" >>,
       << "U+104A0", "U+104A1", "U+104A2", "U+104A3", "U+104A4", "U+104A5", "U+104A6", "U+104A7", "U+104A8", "U+104A9" >>,
       << "U+10D30", "U+10D31", "U+10D32", "U+10D33", "U+10D34", "U+10D35", "U+10D36", "U+10D37", "U+10D38", "U+10D39" >>,
       << "U+11066", "U+11067", "U+11068", "U+11069", "U+1106A", "U+1106B", "U+1106C", "U+1106D", "U+1106E", "U+1106F" >>,
       << "U+110F0", "U+110F1", "U+110F2", "U+110F3", "U+110F4", "U+110F5", "U+110F6", "U+110F7", "U+110F8", "U+110F9" >>,
       << "U+11136", "U+11137", "U+11138", "U+11139", "U+1113A", "U+1113B", "U+1113C", "U+1113D", "U+1113E", "U+1113F" >>,
       << "U+111D0", "U+111D1", "U+111D2", "U+111D3", "U+111D4", "U+111D5", "U+111D6", "U+111D7", "U+111D8", "U+111D9" >>,
       << "U+112F0", "U+112F1", "U+112F2", "U+112F3", "U+112F4", "U+112F5", "U+112F6", "U+112F7", "U+112F8", "U+112F9" >>,
       << "U+11450", "U+11451", "U+11452", "U+11453", "U+11454", "U+11455", "U+11456", "U+11457", "U+11458", "U+11459" >>,
       << "U+114D0", "U+114D1", "U+114D2", "U+114D3", "U+114D4", "U+114D5", "U+114D6", "U+114D7", "U+114D8", "U+114D9" >>,
       << "U+11650", "U+11651", "U+11652", "U+11653", "U+11654", "U+11655", "U+11656", "U+11657", "U+11658", "U+11659" >>,
       << "U+116C0", "U+116C1", "U+116C2", "U+116C3", "U+116C4", "U+116C5", "U+116C6", "U+116C7", "U+116C8", "U+116C9" >>,
       << "U+11730", "U+11731", "U+11732", "U+11733", "U+11734", "U+11735", "U+11736", "U+11737", "U+11738", "U+11739" >>,
       << "U+118E0", "U+118E1", "U+118E2", "U+118E3", "U+118E4", "U+118E5", "U+118E6", "U+118E7", "U+118E8", "U+118E9" >>,
       << "U+11950", "U+11951", "U+11952", "U+11953", "U+11954", "U+11955", "U+11956", "U+11957", "U+11958", "U+11959" >>,
       << "U+11C50", "U+11C51", "U+11C52", "U+11C53", "U+11C54", "U+11C55", "U+11C56", "U+11C57", "U+11C58", "U+11C59" >>,
       << "U+11D50", "U+11D51", "U+11D52", "U+11D53", "U+11D54", "U+11D55", "U+11D56", "U+11D57", "U+11D58", "U+11D59" >>,
       << "U+11DA0", "U+11DA1", "U+11DA2", "U+11DA3", "U+11DA4", "U+11DA5", "U+11DA6", "U+11DA7", "U+11DA8", "U+11DA9" >>,
       << "U+16A60", "U+16A61", "U+16A62", "U+16A63", "U+16A64", "U+16A65", "U+16A66", "U+16A67", "U+16A68", "U+16A69" >>,
       << "U+16AC0", "U+16AC1", "U+16AC2", "U+16AC3", "U+16AC4", "U+16AC5", "U+16AC6", "U+16AC7", "U+16AC8", "U+16AC9" >>,
       << "U+16B50", "U+16B51", "U+16B52", "U+16B53", "U+16B54", "U+16B55", "U+16B56", "U+16B57", "U+16B58", "U+16B59" >>,
       << "U+1D7CE", "U+1D7CF", "U+1D7D0", "U+1D7D1", "U+1D7D2", "U+1D7D3", "U+1D7D4", "U+1D7D5", "U+1D7D6", "U+1D7D7" >>,
       << "U+1D7D8", "U+1D7D9", "U+1D7DA", "U+1D7DB", "U+1D7DC", "U+1D7DD", "U+1D7DE", "U+1D7DF", "U+1D7E0", "U+1D7E1" >>,
       << "U+1D7E2", "U+1D7E3", "U+1D7E4", "U+1D7E5", "U+1D7E6", "U+1D7E7", "U+1D7E8", "U+1D7E9", "U+1D7EA", "U+1D7EB" >>,
       << "U+1D7EC", "U+1D7ED", "U+1D7EE", "U+1D7EF", "U+1D7F0", "U+1D7F1", "U+1D7F2", "U+1D7F3", "U+1D7F4", "U+1D7F5" >>,
       << "U+1D7F6", "U+1D7F7", "U+1D7F8", "U+1D7F9", "U+1D7FA", "U+1D7FB", "U+1D7FC", "U+1D7FD", "U+1D7FE", "U+1D7FF" >>,
       << "U+1E140", "U+1E141", "U+1E142", "U+1E143", "U+1E144", "U+1E145", "U+1E146", "U+1E147", "U+1E148", "U+1E149" >>,
       << "U+1E2F0", "U+1E2F1", "U+1E2F2", "U+1E2F3", "U+1E2F4", "U+1E2F5", "U+1E2F6", "U+1E2F7", "U+1E2F8", "U+1E2F9" >>,
       << "U+1E950", "U+1E951", "U+1E952", "U+1E953", "U+1E954", "U+1E955", "U+1E956", "U+1E957", "U+1E958", "U+1E959" >>,
       << "U+1FBF0", "U+1FBF1", "U+1FBF2", "U+1FBF3", "U+1FBF4", "U+1FBF5", "U+1FBF6", "U+1FBF7", "U+1FBF8", "U+1FBF9" >> >>

DecimalDigitSet == { DecimalDigits[r][d] : r \in 1..Len(DecimalDigits), d \in 1..10 }

IsDigit(c) == c \in DecimalDigitSet

\* the value int() gives a digit: its place in its run
DigitValues ==
    [c \in DecimalDigitSet |->
        CHOOSE v \in 0..9 : \E r \in 1..Len(DecimalDigits) : DecimalDigits[r][v + 1] = c]

DigitVal(c) == DigitValues[c]

MinOf(S) == CHOOSE k \in S : \A j \in S : k <= j

MaxOf(S) == CHOOSE k \in S : \A j \in S : j <= k

\* the characters str.isspace() is true of, the ones str.strip() removes.
\* ASCII: blank, tab, line feed, carriage return, form feed and (written
\* raw) vertical tab and the separators 0x1c, 0x1d, 0x1e, 0x1f
AsciiWhitespace == { " ", "\t", "\n", "\r", "\f", "", "", "", "", "" }

\* outside ASCII: next line, no-break space, ogham space mark, the spaces
\* U+2000 to U+200A, line and paragraph separator, narrow no-break space,
\* medium mathematical space, ideographic space
UnicodeWhitespace ==
    { "U+0085", "U+00A0", "U+1680", "U+2000", "U+2001", "U+2002", "U+2003",
      "U+2004", "U+2005", "U+2006", "U+2007", "U+2008", "U+2009", "U+200A",
      "U+2028", "U+2029", "U+202F", "U+205F", "U+3000" }

Whitespace == AsciiWhitespace \cup UnicodeWhitespace

IsSpace(c) == c \in Whitespace

\* str.rfind(ch): the last index of ch in s, 0 when absent (Python: -1)
RFind(s, ch) ==
    LET at == { k \in 1..Len(s) : s[k] = ch }
    IN  IF at = {} THEN 0 ELSE MaxOf(at)

\* s.rsplit(sep, 1)
rsplit1(s, sep) ==
    LET k == RFind(s, sep)
    IN  IF k = 0 THEN << s >>
        ELSE << SubSeq(s, 1, k - 1), SubSeq(s, k + 1, Len(s)) >>

\* re.match(r"^(\d+)", s).group(1), or <<>> when there is no match
LeadingDigits(s) ==
    LET stop == { k \in 1..Len(s) : ~IsDigit(s[k]) }
    IN  SubSeq(s, 1, IF stop = {} THEN Len(s) ELSE MinOf(stop) - 1)

\* A Python int has no bound: a number is the sequence of its decimal digit
\* values, the most significant first and not 0 (but for the number 0).
RECURSIVE ToNum(_)
ToNum(n) == IF n < 10 THEN << n >> ELSE Append(ToNum(n \div 10), n % 10)

\* a < b and a <= b of two numbers
NumLess(a, b) ==
    \/ Len(a) < Len(b)
    \/ /\ Len(a) = Len(b)
       /\ \E i \in 1..Len(a) : a[i] < b[i] /\ \A j \in 1..(i - 1) : a[j] = b[j]

NumLeq(a, b) == a = b \/ NumLess(a, b)

\* int(digits) raises ValueError on more digits than the interpreter's
\* limit for the conversion (sys.get_int_max_str_digits(), 4300 by default)
IntMaxStrDigits == 4300

\* int(digits), digits a non-empty run of at most IntMaxStrDigits digits
IntOf(ds) ==
    LET v  == [j \in 1..Len(ds) |-> DigitVal(ds[j])]
        nz == { j \in 1..Len(ds) : v[j] # 0 }
    IN  IF nz = {} THEN << 0 >> ELSE SubSeq(v, MinOf(nz), Len(v))

Sentinel == 999999999

\* what a call gives: the value returned, or ValueError raised
Return(v) == [raised |-> FALSE, value |-> v]

Raise == [raised |-> TRUE, value |-> << >>]

parse_trailing_number(s) ==
    IF s = << >> THEN Return(ToNum(Sentinel))
    ELSE LET parts == rsplit1(s, "-")
         IN  IF Len(parts) < 2 THEN Return(ToNum(Sentinel))
             ELSE LET m == LeadingDigits(parts[2])
                  IN  IF m = << >> THEN Return(ToNum(Sentinel))
                      ELSE IF Len(m) > IntMaxStrDigits THEN Raise
                      ELSE Return(IntOf(m))

\* str.strip()
RECURSIVE LStrip(_)
LStrip(s) ==
    IF s # << >> /\ IsSpace(Head(s)) THEN LStrip(Tail(s)) ELSE s

RECURSIVE RStrip(_)
RStrip(s) ==
    IF s # << >> /\ IsSpace(s[Len(s)]) THEN RStrip(SubSeq(s, 1, Len(s) - 1)) ELSE s

Strip(s) == RStrip(LStrip(s))

\* os.path.basename(p)
basename(p) == SubSeq(p, RFind(p, "/") + 1, Len(p))

\* os.path.join(a, b), b a relative name
path_join(a, b) ==
    IF a = << >> \/ a[Len(a)] = "/" THEN a \o b ELSE a \o << "/" >> \o b

\* os.path.splitext(fname)[0]: cut at the last dot unless only dots precede it
splitext_root(p) ==
    LET sepIndex == RFind(p, "/")
        dotIndex == RFind(p, ".")
    IN  IF dotIndex > sepIndex
           /\ \E j \in (sepIndex + 1)..(dotIndex - 1) : p[j] # "."
        THEN SubSeq(p, 1, dotIndex - 1)
        ELSE p

UpperLetters ==
    << "A", "B", "C", "D", "E", "F", "G", "H", "I", "J", "K", "L", "M",
       "N", "O", "P", "Q", "R", "S", "T", "U", "V", "W", "X", "Y", "Z" >>

LowerLetters ==
    << "a", "b", "c", "d", "e", "f", "g", "h", "i", "j", "k", "l", "m",
       "n", "o", "p", "q", "r", "s", "t", "u", "v", "w", "x", "y", "z" >>

KelvinSign == "U+212A"

\* c.lower() == d, for d a character of an extension (".", a lower-case
\* ASCII letter): c is d, its upper-case letter, or for "k" the Kelvin sign;
\* no other character has a lower case that holds d
lowers_to(c, d) ==
    \/ c = d
    \/ \E j \in 1..26 : LowerLetters[j] = d /\ UpperLetters[j] = c
    \/ d = "k" /\ c = KelvinSign

\* f.lower().endswith(ext), ext an extension: the characters of ext come
\* from the last Len(ext) characters of f, one each
lower_endswith(f, ext) ==
    /\ Len(f) >= Len(ext)
    /\ \A j \in 1..Len(ext) : lowers_to(f[Len(f) - Len(ext) + j], ext[j])

DotPng == << ".", "p", "n", "g" >>
DotKmz == << ".", "k", "m", "z" >>


(***************************************************************************)
(* Element trees.  El is the document as text (nested elements); a parsed  *)
(* tree is a store: element number n has tag[n], text[n] and the ordered   *)
(* child numbers kids[n].  The root is element 1.  A missing text (None)   *)
(* and an empty text are both << >>: the code only tests text for truth.   *)
(* tail[n] is the text between the end of element n and the next element *)
(* (Element.tail).  A text holds the characters the parser delivers: a     *)
(* carriage return is one that the file gives as a character reference.    *)
(* Elements have no attributes.                                            *)
(***************************************************************************)
El(tag, text, kids) == [tag |-> tag, text |-> text, kids |-> kids, tail |-> << >>]

WithTail(e, s) == [e EXCEPT !.tail = s]

NoTree == [tag |-> << >>, text |-> << >>, kids |-> << >>, tail |-> << >>]

Root == 1

\* ET.fromstring / ET.parse: add element e and its subtree to the store, in
\* document order; e gets number Len(t.tag) + 1 and no parent
RECURSIVE AddElem(_, _)
RECURSIVE AddKids(_, _, _, _)
AddElem(t, e) ==
    LET id == Len(t.tag) + 1
        t1 == [tag  |-> Append(t.tag, e.tag),
               text |-> Append(t.text, e.text),
               kids |-> Append(t.kids, << >>),
               tail |-> Append(t.tail, e.tail)]
    IN  AddKids(t1, id, e.kids, 1)

AddKids(t, id, ks, j) ==
    IF j > Len(ks) THEN t
    ELSE LET kid == Len(t.tag) + 1
             t1  == AddElem(t, ks[j])
         IN  AddKids([t1 EXCEPT !.kids[id] = Append(@, kid)], id, ks, j + 1)

Parse(doc) == AddElem(NoTree, doc)

\* a text as a parser reads it once it has been written: the serializer
\* writes a carriage return raw, and the parser's end-of-line handling reads
\* "\r\n" and a lone "\r" as "\n"
read_text(s) ==
    IF \A j \in 1..Len(s) : s[j] # "\r" THEN s
    ELSE LET kept == SelectSeq([j \in 1..Len(s) |-> j],
                               LAMBDA j : ~(s[j] = "\n" /\ j > 1 /\ s[j - 1] = "\r"))
         IN  [i \in 1..Len(kept) |-> IF s[kept[i]] = "\r" THEN "\n" ELSE s[kept[i]]]

\* ET.tostring(element): the subtree of element n, its tail included, as
\* the document a parser reads from the text written
RECURSIVE Dump(_, _)
Dump(t, n) ==
    [tag  |-> t.tag[n],
     text |-> read_text(t.text[n]),
     kids |-> [j \in 1..Len(t.kids[n]) |-> Dump(t, t.kids[n][j])],
     tail |-> read_text(t.tail[n])]

\* the white space of XML: what may follow the end of the document element
XmlSpace == { " ", "\t", "\n", "\r" }

\* ET.fromstring(text) raises ParseError (junk after document element) when
\* anything but white space follows the element
fromstring_raises(e) == \E j \in 1..Len(e.tail) : e.tail[j] \notin XmlSpace

\* ET.fromstring(text): the element read, added to the store; what follows
\* it is dropped
fromstring(t, e) == AddElem(t, WithTail(e, << >>))

\* tree.write(kml_path): the tree as it is read from the file written, the
\* elements keeping their numbers
tree_write(t) ==
    [t EXCEPT !.text = [n \in 1..Len(t.text) |-> read_text(t.text[n])],
              !.tail = [n \in 1..Len(t.tail) |-> read_text(t.tail[n])]]

\* ET.SubElement(parent, tag): the new element is number Len(t.tag) + 1
SubElement(t, parent, tag) ==
    LET id == Len(t.tag) + 1
    IN  [tag  |-> Append(t.tag, tag),
         text |-> Append(t.text, << >>),
         kids |-> [Append(t.kids, << >>) EXCEPT ![parent] = Append(@, id)],
         tail |-> Append(t.tail, << >>)]

\* parent.append(child)
AppendChild(t, parent, child) == [t EXCEPT !.kids[parent] = Append(@, child)]

\* parent.remove(child), child one of parent's children
RemoveChild(t, parent, child) ==
    [t EXCEPT !.kids[parent] = SelectSeq(@, LAMBDA k : k # child)]

IsChild(t, parent, child) == \E j \in 1..Len(t.kids[parent]) : t.kids[parent][j] = child

SetText(t, n, s) == [t EXCEPT !.text[n] = s]

\* the descendants of the elements ks, in document order (Element.iter)
RECURSIVE DescOf(_, _)
DescOf(t, ks) ==
    IF ks = << >> THEN << >>
    ELSE << Head(ks) >> \o DescOf(t, t.kids[Head(ks)]) \o DescOf(t, Tail(ks))

Descendants(t, n) == DescOf(t, t.kids[n])

FirstOrNone(s) == IF s = << >> THEN 0 ELSE Head(s)

\* n.findall("kml:tag"): the children of n with that tag
findall_children(t, n, tag) == SelectSeq(t.kids[n], LAMBDA k : t.tag[k] = tag)

\* n.find("kml:tag"): the first such child, 0 for None
find_child(t, n, tag) == FirstOrNone(findall_children(t, n, tag))

\* n.findall(".//kml:tag"): the descendants of n with that tag
findall_desc(t, n, tag) == SelectSeq(Descendants(t, n), LAMBDA k : t.tag[k] = tag)

\* n.find(".//kml:tag")
find_desc(t, n, tag) == FirstOrNone(findall_desc(t, n, tag))

\* n.find(".//kml:Icon/kml:href"): the first href child of a descendant Icon
RECURSIVE HrefsOf(_, _)
HrefsOf(t, icons) ==
    IF icons = << >> THEN << >>
    ELSE findall_children(t, Head(icons), "href") \o HrefsOf(t, Tail(icons))

find_icon_href(t, n) == FirstOrNone(HrefsOf(t, findall_desc(t, n, "Icon")))

(***************************************************************************)
(* reorder_overlays                                                        *)
(***************************************************************************)
get_overlay_key(t, ov) ==
    LET name_el == find_desc(t, ov, "name")
    IN  IF name_el # 0 /\ t.text[name_el] # << >>
        THEN parse_trailing_number(t.text[name_el])
        ELSE Return(ToNum(Sentinel))

\* a wrong insertion: before the elements of equal key (an unstable sort)
insert_before_equal(keys, sorted, j) ==
    LET lo == SelectSeq(sorted, LAMBDA x : NumLess(keys[x], keys[j]))
        hi == SelectSeq(sorted, LAMBDA x : ~NumLess(keys[x], keys[j]))
    IN  lo \o << j >> \o hi

\* one step of the stable sort: element j goes after every element whose
\* key is not greater than its own
insert_by_key(keys, sorted, j) ==
    LET lo == SelectSeq(sorted, LAMBDA x : NumLeq(keys[x], keys[j]))
        hi == SelectSeq(sorted, LAMBDA x : ~NumLeq(keys[x], keys[j]))
    IN  lo \o << j >> \o hi

RECURSIVE insert_all(_, _, _)
insert_all(keys, sorted, j) ==
    IF j > Len(keys) THEN sorted
    ELSE insert_all(keys, insert_by_key(keys, sorted, j), j + 1)

\* sorted(overlays, key=get_overlay_key), a stable sort: the key of every
\* element is computed once, before any comparison, and an exception of the
\* key function is the call's
sorted_by_key(t, overlays) ==
    LET called == [j \in 1..Len(overlays) |-> get_overlay_key(t, overlays[j])]
        keys   == [j \in 1..Len(overlays) |-> called[j].value]
        order  == insert_all(keys, << >>, 1)
    IN  IF \E j \in 1..Len(overlays) : called[j].raised
        THEN Raise
        ELSE Return([i \in 1..Len(overlays) |-> overlays[order[i]]])

\* reorder_overlays(document_node): the tree after it, or ValueError raised
\* with the tree as it was
reorder_overlays(t, document_node) ==
    LET overlays == findall_children(t, document_node, "GroundOverlay")
        sorted_overlays == sorted_by_key(t, overlays)
        others == SelectSeq(t.kids[document_node], LAMBDA k : t.tag[k] # "GroundOverlay")
    IN  IF sorted_overlays.raised THEN [tree |-> t, raised |-> TRUE]
        ELSE [tree |-> [t EXCEPT !.kids[document_node] = others \o sorted_overlays.value],
              raised |-> FALSE]

(***************************************************************************)
(* modify_kml                                                              *)
(***************************************************************************)
\* the <Document>, else the <Folder>, found first in document order; 0: none
find_group(t) ==
    LET d == find_desc(t, Root, "Document")
    IN  IF d # 0 THEN d ELSE find_desc(t, Root, "Folder")

\* for ov in overlays: root.remove(ov); document_node.append(ov)
\* root.remove raises ValueError when ov is not a child of the root
RECURSIVE move_overlays(_, _, _)
move_overlays(t, overlays, document_node) ==
    IF overlays = << >> THEN [tree |-> t, raised |-> FALSE]
    ELSE IF ~IsChild(t, Root, Head(overlays)) THEN [tree |-> t, raised |-> TRUE]
    ELSE move_overlays(
             AppendChild(RemoveChild(t, Root, Head(overlays)), document_node, Head(overlays)),
             Tail(overlays), document_node)

\* a wrong rename: an existing name field is left as it is
rename_only_if_absent(t, document_node, subfolder_name) ==
    IF find_child(t, document_node, "name") # 0 THEN t
    ELSE SetText(SubElement(t, document_node, "name"), Len(t.tag) + 1, subfolder_name)

rename_group(t, document_node, subfolder_name) ==
    LET doc_name_el == find_child(t, document_node, "name")
    IN  IF doc_name_el # 0 THEN SetText(t, doc_name_el, subfolder_name)
        ELSE SetText(SubElement(t, document_node, "name"), Len(t.tag) + 1, subfolder_name)

\* the file name the template overlay refers to, << >> for None
original_png_of(t, first_overlay) ==
    LET icon_href_el == find_icon_href(t, first_overlay)
    IN  IF icon_href_el # 0 /\ t.text[icon_href_el] # << >>
        THEN basename(Strip(t.text[icon_href_el]))
        ELSE << >>

\* a wrong partition: the template's own image is cloned as well
create_list_all(png_filepaths, original_png) == png_filepaths

\* the paths that get a new overlay: all but the template's own image
create_list_of(png_filepaths, original_png) ==
    SelectSeq(png_filepaths,
              LAMBDA p : ~(original_png # << >> /\ basename(p) = original_png))

\* one clone of the template for the image at abs_path, appended to the group
clone_overlay(t, first_overlay, document_node, subfolder_name, abs_path) ==
    LET fname       == basename(abs_path)
        new_overlay == Len(t.tag) + 1
        t1          == fromstring(t, Dump(t, first_overlay))
        icon_href   == find_icon_href(t1, new_overlay)
        t2          == IF icon_href # 0
                       THEN SetText(t1, icon_href, subfolder_name \o << "/" >> \o fname)
                       ELSE t1
        overlay_name == find_desc(t2, new_overlay, "name")
        t3          == IF overlay_name # 0
                       THEN SetText(t2, overlay_name, splitext_root(fname))
                       ELSE t2
    IN  AppendChild(t3, document_node, new_overlay)

RECURSIVE clone_all(_, _, _, _, _)
clone_all(t, first_overlay, document_node, subfolder_name, create_list) ==
    IF create_list = << >> THEN t
    ELSE clone_all(
             clone_overlay(t, first_overlay, document_node, subfolder_name, Head(create_list)),
             first_overlay, document_node, subfolder_name, Tail(create_list))

\* the clone loop: the first clone raises ParseError when the text written
\* for the template does not read back as one element
create_overlays(t, first_overlay, document_node, subfolder_name, create_list) ==
    IF create_list # << >> /\ fromstring_raises(Dump(t, first_overlay))
    THEN [tree |-> t, raised |-> TRUE]
    ELSE [tree |-> clone_all(t, first_overlay, document_node, subfolder_name, create_list),
          raised |-> FALSE]

\* the copy loop: a path that is no file is skipped; copy2 raises OSError
\* on a file the disk refuses.  Refused when the destination is opened
\* ("open"), nothing arrives; refused while it is written ("write"), a
\* truncated destination stays.  The files copied before stay.  `done` is
\* the listing of the destination directory.
RECURSIVE copy_pngs(_, _, _, _, _)
copy_pngs(png_filepaths, missing, refused, copy_error, done) ==
    IF png_filepaths = << >> THEN [copied |-> done, raised |-> FALSE]
    ELSE LET fname == basename(Head(png_filepaths))
         IN  IF fname \in missing
             THEN copy_pngs(Tail(png_filepaths), missing, refused, copy_error, done)
             ELSE IF fname \in refused
             THEN [copied |-> IF copy_error = "write" THEN done \cup {fname} ELSE done,
                   raised |-> TRUE]
             ELSE copy_pngs(Tail(png_filepaths), missing, refused, copy_error,
                            done \cup {fname})

MkResult(outcome, tree, files) == [outcome |-> outcome, tree |-> tree, copied |-> files]

\* modify_kml(kml_path, png_filepaths, subfolder_name) on the document `doc`
\* of unit u: outcome "True" / "False" (the return value) or the exception
\* raised; tree is what tree.write saved (NoTree: nothing was saved)
modify_kml(u, png_filepaths, subfolder_name) ==
    IF ~u.xml_ok THEN MkResult("ParseError", NoTree, {})
    ELSE
    LET t0       == Parse(u.doc)
        overlays == findall_desc(t0, Root, "GroundOverlay")
    IN  IF overlays = << >> THEN MkResult("False", NoTree, {})
        ELSE
        LET first_overlay == overlays[1]
            found   == find_group(t0)
            created == SubElement(t0, Root, "Document")
            moved   == move_overlays(created, overlays, Len(t0.tag) + 1)
            document_node == IF found # 0 THEN found ELSE Len(t0.tag) + 1
            t1      == IF found # 0 THEN t0 ELSE moved.tree
        IN  IF found = 0 /\ moved.raised THEN MkResult("ValueError", NoTree, {})
            ELSE
            LET t2 == rename_group(t1, document_node, subfolder_name)
                original_png == original_png_of(t2, first_overlay)
                create_list  == create_list_of(png_filepaths, original_png)
                co == create_overlays(t2, first_overlay, document_node,
                                      subfolder_name, create_list)
                cp == copy_pngs(png_filepaths, u.missing, u.refused, u.copy_error, {})
                ro == reorder_overlays(co.tree, document_node)
            IN  IF co.raised THEN MkResult("ParseError", NoTree, {})
                ELSE IF cp.raised THEN MkResult("OSError", NoTree, cp.copied)
                ELSE IF ro.raised THEN MkResult("ValueError", NoTree, cp.copied)
                ELSE MkResult("True", tree_write(ro.tree), cp.copied)


(***************************************************************************)
(* The unit directories.  A unit is a directory of the main folder: its    *)
(* name, its listing, and what the run will find in it: whether the .kmz   *)
(* is a readable archive, holds a .kml, whether the .kml is well formed,   *)
(* the document, the listed files that are no regular file when they are   *)
(* copied (missing), the listed files whose copy the disk refuses          *)
(* (refused) and how (copy_error: "open" or "write"), and whether and how  *)
(* the disk refuses the new archive (pack_error: "none", "open", "write"). *)
(***************************************************************************)
MainFolder == << "m" >>

UnitName(k) == << "u", Digits[k + 1] >>

subfolder_path_of(u) == path_join(MainFolder, u.name)

\* [f for f in os.listdir(subfolder_path) if f.lower().endswith(ext)]
files_ending(u, ext) == SelectSeq(u.files, LAMBDA f : lower_endswith(f, ext))

\* [os.path.join(subfolder_path, f) for f in all_files if ...'.png']
png_files_abs_of(u) ==
    LET pngs == files_ending(u, DotPng)
    IN  [j \in 1..Len(pngs) |-> path_join(subfolder_path_of(u), pngs[j])]

(***************************************************************************)
(* process_subfolder and main, one action per step.                        *)
(***************************************************************************)
Unit == units[idx]

\* main(), lines 261-287: the two folders are asked for; a dialog that is
\* cancelled ends the run with a warning (the output folder is asked for
\* only when a main folder was chosen).  Then the subfolders are listed;
\* none: "No subfolders found"
MainList ==
    /\ pc = "main"
    /\ \E main_folder, output_folder \in BOOLEAN :
          IF ~main_folder \/ ~output_folder
          THEN /\ dialog' = << "warning", 0 >>
               /\ pc' = "exit"
               /\ UNCHANGED << idx, success_count >>
          ELSE IF units = << >>
          THEN /\ dialog' = << "info", 0 >>
               /\ pc' = "exit"
               /\ UNCHANGED << idx, success_count >>
          ELSE /\ success_count' = 0
               /\ idx' = 1
               /\ pc' = "ps_scan"
               /\ UNCHANGED dialog
    /\ UNCHANGED << name_str, key, units, png_files, temp_dirs, out_kmz,
                    kml_doc, copied, ret, err, processed >>

\* process_subfolder, lines 194-216: the .kmz and the .png files are listed
PS_Scan ==
    /\ pc = "ps_scan"
    /\ processed' = processed \cup {idx}
    /\ IF files_ending(Unit, DotKmz) = << >> \/ png_files_abs_of(Unit) = << >>
       THEN /\ ret' = FALSE
            /\ pc' = "ps_ret"
            /\ UNCHANGED png_files
       ELSE /\ png_files' = png_files_abs_of(Unit)
            /\ pc' = "ps_temp"
            /\ UNCHANGED ret
    /\ UNCHANGED << name_str, key, units, idx, success_count, temp_dirs, out_kmz,
                    kml_doc, copied, err, dialog >>

\* lines 219-222: a stale working directory is removed, a fresh one made
PS_MakeTemp ==
    /\ pc = "ps_temp"
    /\ temp_dirs' = temp_dirs \cup {idx}
    /\ copied' = {}
    /\ pc' = "ps_extract"
    /\ UNCHANGED << name_str, key, units, idx, success_count, png_files, out_kmz,
                    kml_doc, ret, err, processed, dialog >>

\* line 225: extract_kmz; zipfile raises BadZipFile on an unreadable archive
PS_Extract ==
    /\ pc = "ps_extract"
    /\ IF Unit.zip_ok
       THEN pc' = "ps_find" /\ UNCHANGED err
       ELSE pc' = "main_except" /\ err' = "BadZipFile"
    /\ UNCHANGED << name_str, key, units, idx, success_count, png_files, temp_dirs,
                    out_kmz, kml_doc, copied, ret, processed, dialog >>

\* lines 228-240: the .kml is looked for; none: cleanup and return False
PS_FindKml ==
    /\ pc = "ps_find"
    /\ IF Unit.has_kml
       THEN pc' = "ps_modify" /\ UNCHANGED << temp_dirs, ret >>
       ELSE /\ temp_dirs' = temp_dirs \ {idx}
            /\ ret' = FALSE
            /\ pc' = "ps_ret"
    /\ UNCHANGED << name_str, key, units, idx, success_count, png_files, out_kmz,
                    kml_doc, copied, err, processed, dialog >>

\* lines 243-247: modify_kml is called; False: cleanup and return False;
\* an exception of modify_kml propagates
PS_ModifyKml ==
    /\ pc = "ps_modify"
    /\ LET r == modify_kml(Unit, png_files, basename(subfolder_path_of(Unit)))
       IN  /\ copied' = r.copied
           /\ CASE r.outcome = "True" ->
                     /\ kml_doc' = r.tree
                     /\ pc' = "ps_pack"
                     /\ UNCHANGED << temp_dirs, ret, err >>
                [] r.outcome = "False" ->
                     /\ temp_dirs' = temp_dirs \ {idx}
                     /\ ret' = FALSE
                     /\ pc' = "ps_ret"
                     /\ UNCHANGED << kml_doc, err >>
                [] OTHER ->
                     /\ err' = r.outcome
                     /\ pc' = "main_except"
                     /\ UNCHANGED << kml_doc, temp_dirs, ret >>
    /\ UNCHANGED << name_str, key, units, idx, success_count, png_files, out_kmz,
                    processed, dialog >>

\* lines 250-255: create_kmz, then cleanup and return True; an error of
\* the archive propagates: refused when it is opened, no file is made;
\* refused while it is written, a truncated file of that name stays
PS_Pack ==
    /\ pc = "ps_pack"
    /\ IF Unit.pack_error # "none"
       THEN /\ err' = "OSError"
            /\ pc' = "main_except"
            /\ out_kmz' = IF Unit.pack_error = "write" THEN out_kmz \cup {idx} ELSE out_kmz
            /\ UNCHANGED << temp_dirs, ret >>
       ELSE /\ out_kmz' = out_kmz \cup {idx}
            /\ temp_dirs' = temp_dirs \ {idx}
            /\ ret' = TRUE
            /\ pc' = "ps_ret"
            /\ UNCHANGED err
    /\ UNCHANGED << name_str, key, units, idx, success_count, png_files, kml_doc,
                    copied, processed, dialog >>

\* main(), lines 289-292 and the loop head: count the unit, take the next
MainLoop ==
    /\ pc = "ps_ret"
    /\ success_count' = IF ret THEN success_count + 1 ELSE success_count
    /\ IF idx < Len(units)
       THEN idx' = idx + 1 /\ pc' = "ps_scan"
       ELSE pc' = "main_done" /\ UNCHANGED idx
    /\ UNCHANGED << name_str, key, units, png_files, temp_dirs, out_kmz, kml_doc,
                    copied, ret, err, processed, dialog >>

\* main(), lines 294-298: the summary
MainDone ==
    /\ pc = "main_done"
    /\ dialog' = << "done", success_count >>
    /\ pc' = "exit"
    /\ UNCHANGED << name_str, key, units, idx, success_count, png_files, temp_dirs,
                    out_kmz, kml_doc, copied, ret, err, processed >>

\* main(), lines 300-301: any exception ends the run with an error box
MainExcept ==
    /\ pc = "main_except"
    /\ dialog' = << "error", 0 >>
    /\ pc' = "exit"
    /\ UNCHANGED << name_str, key, units, idx, success_count, png_files, temp_dirs,
                    out_kmz, kml_doc, copied, ret, err, processed >>

\* parse_trailing_number(name_str) is called: it returns key, or raises
ParseCall ==
    /\ pc = "parse"
    /\ LET r == parse_trailing_number(name_str)
       IN  IF r.raised
           THEN err' = "ValueError" /\ UNCHANGED key
           ELSE key' = r.value /\ UNCHANGED err
    /\ pc' = "parsed"
    /\ UNCHANGED << name_str, units, idx, success_count, png_files, temp_dirs,
                    out_kmz, kml_doc, copied, ret, processed, dialog >>

(***************************************************************************)
(* The inputs.                                                             *)
(***************************************************************************)
SeqsUpTo(S, n) == UNION { [1..m -> S] : m \in 0..n }

IsInjective(s) == \A a, b \in 1..Len(s) : s[a] = s[b] => a = b

b_png  == << "b", ".", "p", "n", "g" >>
a2_png == << "a", "-", "2", ".", "p", "n", "g" >>
a1_png == << "a", "-", "U+0661", ".", "p", "n", "g" >>
o_kmz  == << "o", ".", "k", "m", "z" >>

NameEl(s) == El("name", s, << >>)
IconEl(s) == El("Icon", << >>, << El("href", s, << >>) >>)
OverlayEl(kids) == El("GroundOverlay", << >>, kids)

\* the overlays a document may hold: a plain one; one whose name has a
\* suffix above the sentinel and whose reference is pretty-printed, with a
\* no-break space; one without name and reference of its own, around a
\* nested overlay; one with an empty name and no reference; one with a
\* reference of its own, around a nested overlay referring to the same file
OverlayKinds ==
    { OverlayEl(<< NameEl(<< "a", "-", "2" >>), IconEl(b_png) >>),
      WithTail(OverlayEl(<< NameEl(<< "a", "-", "1", "0", "0", "0", "0", "0", "0", "0", "0", "0" >>),
                            IconEl(<< "\n", " ", "\t", "f", "/", "b", ".", "p", "n", "g",
                                      "U+00A0", "\r", "\n" >>) >>),
               << "\r", "\n", " " >>),
      El("GroundOverlay", << "\r", "\r", "\n" >>, << OverlayEl(<< IconEl(b_png) >>) >>),
      OverlayEl(<< NameEl(<< >>) >>),
      OverlayEl(<< NameEl(<< "a", "-", "2" >>), IconEl(b_png),
                   OverlayEl(<< NameEl(<< "a", "-", "3" >>), IconEl(b_png) >>) >>) }

Layouts == { "root", "other", "doc", "folder", "doc_folder", "folder_doc", "mixed", "split" }

FirstOf(s) == IF s = << >> THEN << >> ELSE << Head(s) >>

RestOf(s) == IF s = << >> THEN << >> ELSE Tail(s)

GroupKids(withName, rest) ==
    (IF withName THEN << NameEl(<< "o", "l", "d" >>) >> ELSE << >>) \o rest

\* the document with the overlays ovs laid out as `layout` says
Document(layout, withName, ovs) ==
    LET kml(kids) == El("kml", << >>, kids)
        grp(tag, kids) == El(tag, << >>, kids)
    IN  CASE layout = "root"  -> kml(ovs)
          [] layout = "other" -> kml(<< grp("Other", ovs) >>)
          [] layout = "doc"   -> kml(<< grp("Document", GroupKids(withName, ovs)) >>)
          [] layout = "folder" -> kml(<< grp("Folder", GroupKids(withName, ovs)) >>)
          [] layout = "doc_folder" ->
               kml(<< grp("Document", GroupKids(withName, << grp("Folder", ovs) >>)) >>)
          [] layout = "folder_doc" ->
               kml(<< grp("Folder", << NameEl(<< "f" >>),
                                       grp("Document", GroupKids(withName, ovs)) >>) >>)
          [] layout = "mixed" ->
               kml(FirstOf(ovs) \o << grp("Other", RestOf(ovs)) >>)
          [] layout = "split" ->
               kml(<< grp("Folder", FirstOf(ovs)),
                      grp("Document", GroupKids(withName, RestOf(ovs))) >>)

Documents ==
    { Document(l, w, ovs) : l \in Layouts, w \in BOOLEAN,
                            ovs \in SeqsUpTo(OverlayKinds, MaxOverlays) }

AssetPool == { b_png, a2_png, a1_png }

\* the listings of a unit's images: distinct names, in any order
AssetLists == { s \in SeqsUpTo(AssetPool, MaxAssets) : s # << >> /\ IsInjective(s) }

MkUnit(name, files, zip_ok, has_kml, xml_ok, doc, missing, refused, copy_error, pack_error) ==
    [name |-> name, files |-> files, zip_ok |-> zip_ok, has_kml |-> has_kml,
     xml_ok |-> xml_ok, doc |-> doc, missing |-> missing, refused |-> refused,
     copy_error |-> copy_error, pack_error |-> pack_error]

GoodDoc == Document("doc", TRUE, << OverlayEl(<< NameEl(<< "a", "-", "2" >>), IconEl(b_png) >>) >>)

\* a name whose digit run is one digit longer than int() converts
LongName == << "a", "-" >> \o [j \in 1..(IntMaxStrDigits + 1) |-> "1"]

\* the template is followed by text that is not white space
TailDoc ==
    Document("doc", TRUE,
             << WithTail(OverlayEl(<< NameEl(<< "a", "-", "2" >>), IconEl(b_png) >>),
                         << "\n", "x" >>) >>)

\* the template's name ends in more digits than int() converts
LongDoc == Document("doc", TRUE, << OverlayEl(<< NameEl(LongName), IconEl(b_png) >>) >>)

\* units for the transformation: any document and any listing with every
\* image a file, and the plain document with a-2.png not a file
KmlUnits ==
    { MkUnit(UnitName(1), << o_kmz >> \o pngs, TRUE, TRUE, TRUE, doc, {}, {}, "open", "none") :
        doc \in Documents \cup { TailDoc, LongDoc }, pngs \in AssetLists }
    \cup
    { MkUnit(UnitName(1), << o_kmz >> \o pngs, TRUE, TRUE, TRUE, GoodDoc, {a2_png}, {}, "open", "none") :
        pngs \in AssetLists }

NoOverlayDoc == Document("doc", TRUE, << >>)
NestedDoc == Document("other", FALSE, << OverlayEl(<< NameEl(<< "a", "-", "2" >>), IconEl(b_png) >>) >>)
GoodFiles == << o_kmz, b_png, a2_png >>

\* units for the batch: one of each way a unit can go
BatchUnitKinds ==
    { MkUnit(<< >>, GoodFiles, TRUE, TRUE, TRUE, GoodDoc, {}, {}, "open", "none"),
      MkUnit(<< >>, GoodFiles, TRUE, TRUE, TRUE, GoodDoc, {a2_png}, {}, "open", "none"),
      MkUnit(<< >>, GoodFiles, TRUE, TRUE, TRUE, GoodDoc, {b_png}, {}, "open", "none"),
      MkUnit(<< >>, << << "b", ".", "P", "N", "G" >> >>, TRUE, TRUE, TRUE, GoodDoc, {}, {}, "open", "none"),
      MkUnit(<< >>, << << "o", ".", KelvinSign, "M", "Z" >>, << "n", ".", "t", "x", "t" >> >>,
             TRUE, TRUE, TRUE, GoodDoc, {}, {}, "open", "none"),
      MkUnit(<< >>, GoodFiles, FALSE, TRUE, TRUE, GoodDoc, {}, {}, "open", "none"),
      MkUnit(<< >>, GoodFiles, TRUE, FALSE, TRUE, GoodDoc, {}, {}, "open", "none"),
      MkUnit(<< >>, GoodFiles, TRUE, TRUE, FALSE, GoodDoc, {}, {}, "open", "none"),
      MkUnit(<< >>, GoodFiles, TRUE, TRUE, TRUE, NoOverlayDoc, {}, {}, "open", "none"),
      MkUnit(<< >>, GoodFiles, TRUE, TRUE, TRUE, NestedDoc, {}, {}, "open", "none"),
      MkUnit(<< >>, GoodFiles, TRUE, TRUE, TRUE, TailDoc, {}, {}, "open", "none"),
      MkUnit(<< >>, GoodFiles, TRUE, TRUE, TRUE, LongDoc, {}, {}, "open", "none"),
      MkUnit(<< >>, GoodFiles, TRUE, TRUE, TRUE, GoodDoc, {}, {b_png}, "open", "none"),
      MkUnit(<< >>, GoodFiles, TRUE, TRUE, TRUE, GoodDoc, {}, {a2_png}, "write", "none"),
      MkUnit(<< >>, GoodFiles, TRUE, TRUE, TRUE, GoodDoc, {}, {}, "open", "open"),
      MkUnit(<< >>, GoodFiles, TRUE, TRUE, TRUE, GoodDoc, {}, {}, "open", "write") }

\* the subdirectories of a main folder have distinct names
BatchUnitSeqs ==
    { [k \in 1..Len(s) |-> [s[k] EXCEPT !.name = UnitName(k)]] :
        s \in SeqsUpTo(BatchUnitKinds, MaxUnits) }

ParseAlphabet == { "a", "-", "0", "1", "U+0663" }


(***************************************************************************)
(* The specifications.                                                     *)
(***************************************************************************)
\* the script is started on a main folder; a working directory of an earlier
\* run may still be there
Init ==
    /\ pc = "main"
    /\ units \in BatchUnitSeqs
    /\ temp_dirs \in { {}, {1} \cap (1..Len(units)) }
    /\ name_str = << >>
    /\ key = << >>
    /\ idx = 0
    /\ success_count = 0
    /\ png_files = << >>
    /\ out_kmz = {}
    /\ kml_doc = NoTree
    /\ copied = {}
    /\ ret = FALSE
    /\ err = "none"
    /\ processed = {}
    /\ dialog = << "none", 0 >>

Next ==
    \/ MainList
    \/ PS_Scan
    \/ PS_MakeTemp
    \/ PS_Extract
    \/ PS_FindKml
    \/ PS_ModifyKml
    \/ PS_Pack
    \/ MainLoop
    \/ MainDone
    \/ MainExcept

Spec == Init /\ [][Next]_vars

\* modify_kml alone: process_subfolder is about to call it on an extracted unit
InitKml ==
    /\ pc = "ps_modify"
    /\ \E u \in KmlUnits :
          /\ units = << u >>
          /\ png_files = png_files_abs_of(u)
    /\ idx = 1
    /\ temp_dirs = {1}
    /\ processed = {1}
    /\ name_str = << >>
    /\ key = << >>
    /\ success_count = 0
    /\ out_kmz = {}
    /\ kml_doc = NoTree
    /\ copied = {}
    /\ ret = FALSE
    /\ err = "none"
    /\ dialog = << "none", 0 >>

NextKml == PS_ModifyKml

SpecKml == InitKml /\ [][NextKml]_vars

\* parse_trailing_number alone, on every short name
InitParse ==
    /\ pc = "parse"
    /\ name_str \in SeqsUpTo(ParseAlphabet, MaxLen) \cup { LongName }
    /\ key = << >>
    /\ units = << >>
    /\ idx = 0
    /\ success_count = 0
    /\ png_files = << >>
    /\ temp_dirs = {}
    /\ out_kmz = {}
    /\ kml_doc = NoTree
    /\ copied = {}
    /\ ret = FALSE
    /\ err = "none"
    /\ processed = {}
    /\ dialog = << "none", 0 >>

NextParse == ParseCall

SpecParse == InitParse /\ [][NextParse]_vars


(***************************************************************************)
(* Vocabulary of the properties.                                           *)
(***************************************************************************)
\* modify_kml has just returned True for the current unit: kml_doc is the
\* document it saved
Succeeded == pc = "ps_pack"

\* the call of modify_kml for the current unit is over, however it ended
ModifyOver == pc \in { "ps_pack", "ps_ret", "main_except" } /\ idx \in processed

HrefText(t, ov) ==
    LET h == find_icon_href(t, ov) IN IF h = 0 THEN << >> ELSE t.text[h]

\* the file name an overlay refers to, surrounding whitespace removed
RefFile(t, ov) == basename(Strip(HrefText(t, ov)))

\* the basename of an overlay's reference as it is written
RawRefFile(t, ov) == basename(HrefText(t, ov))

OverlayName(t, ov) ==
    LET n == find_desc(t, ov, "name") IN IF n = 0 THEN << >> ELSE t.text[n]

RefCount(t, f) ==
    Len(SelectSeq(findall_desc(t, Root, "GroundOverlay"), LAMBDA ov : RefFile(t, ov) = f))

RawRefCount(t, f) ==
    Len(SelectSeq(findall_desc(t, Root, "GroundOverlay"), LAMBDA ov : RawRefFile(t, ov) = f))

Pos(seq, x) == CHOOSE i \in 1..Len(seq) : seq[i] = x

Range(seq) == { seq[i] : i \in 1..Len(seq) }

\* the Sort Key as the specification words it
LastDash(s) == CHOOSE k \in 1..Len(s) : s[k] = "-" /\ \A j \in (k + 1)..Len(s) : s[j] # "-"

HasDash(s) == \E k \in 1..Len(s) : s[k] = "-"

Remainder(s) == SubSeq(s, LastDash(s) + 1, Len(s))

HasNumericSuffix(s) == HasDash(s) /\ Remainder(s) # << >> /\ IsDigit(Remainder(s)[1])

\* the number a run of digits writes: its digit values, the leading zeros
\* dropped
RECURSIVE DropZeros(_)
DropZeros(v) == IF Len(v) > 1 /\ Head(v) = 0 THEN DropZeros(Tail(v)) ELSE v

Decimal(ds) == DropZeros([j \in 1..Len(ds) |-> DigitVal(ds[j])])

DigitRun(r) ==
    CHOOSE n \in 1..Len(r) :
        /\ n = Len(r) \/ ~IsDigit(r[n + 1])
        /\ \A j \in 1..n : IsDigit(r[j])

ExpectedKey(s) ==
    IF ~HasNumericSuffix(s) THEN ToNum(Sentinel)
    ELSE Decimal(SubSeq(Remainder(s), 1, DigitRun(Remainder(s))))

\* What a property reads of the current unit's input document and asset list:
\*   tree      the parsed input
\*   overlays  its Overlay Nodes, in document order
\*   document, folder   its first Document and first Folder (0: none)
\*   group     the active Group Node, by element identity: the first
\*             Document, else the first Folder, else the element made right
\*             after parsing
\*   members   the overlays that are children of the input's Group Node (all
\*             overlays when there is none: they are moved under the new one)
\*   assets    the asset filenames, in input order
\*   template  the filename the template (first) overlay refers to,
\*             surrounding whitespace removed
\*   matching  the assets whose filename is the template's
\*   raw_template, raw_matching   the same, the reference taken as written
\*   inner     the overlays nested in the template that refer to the
\*             template's filename by a reference of their own (not the
\*             template's first reference, which a clone gets rewritten)
Input ==
    LET tree     == Parse(Unit.doc)
        overlays == findall_desc(tree, Root, "GroundOverlay")
        document == find_desc(tree, Root, "Document")
        folder   == find_desc(tree, Root, "Folder")
        group    == IF document # 0 THEN document
                    ELSE IF folder # 0 THEN folder
                    ELSE Len(tree.tag) + 1
        assets   == [j \in 1..Len(png_files) |-> basename(png_files[j])]
        template == IF overlays = << >> THEN << >> ELSE RefFile(tree, overlays[1])
        raw_template == IF overlays = << >> THEN << >> ELSE RawRefFile(tree, overlays[1])
        inner    == IF overlays = << >> THEN << >>
                    ELSE SelectSeq(findall_desc(tree, overlays[1], "GroundOverlay"),
                             LAMBDA x : /\ RefFile(tree, x) = template
                                        /\ find_icon_href(tree, x)
                                              # find_icon_href(tree, overlays[1]))
    IN  [tree |-> tree, overlays |-> overlays, document |-> document,
         folder |-> folder, group |-> group,
         members |-> IF document # 0 \/ folder # 0
                     THEN findall_children(tree, group, "GroundOverlay")
                     ELSE overlays,
         assets |-> assets, template |-> template,
         matching |-> { j \in 1..Len(assets) : template # << >> /\ assets[j] = template },
         raw_template |-> raw_template,
         raw_matching |-> { j \in 1..Len(assets) :
                              raw_template # << >> /\ assets[j] = raw_template },
         inner |-> inner,
         unit |-> Unit.name]

\* What a property reads of the saved document kml_doc, given the input `in`:
\*   overlays  the Overlay Nodes that are children of the Group Node, in order
\*   all       all Overlay Nodes of the document
\*   clones    the Overlay Nodes the call made and added to the Group
\*             Node, oldest first (the copies nested in them are not clones)
\*   added     the order in which the group's overlays were added
\*   keys, parseable, refs   per overlay of `overlays`: its Sort Key, whether
\*             its name has a numeric suffix, its asset reference
Output(in) ==
    LET overlays == findall_children(kml_doc, in.group, "GroundOverlay")
        clones   == SelectSeq([n \in 1..Len(kml_doc.tag) |-> n],
                        LAMBDA n : /\ n > Len(in.tree.tag)
                                   /\ kml_doc.tag[n] = "GroundOverlay"
                                   /\ IsChild(kml_doc, in.group, n))
    IN  [overlays |-> overlays,
         all |-> findall_desc(kml_doc, Root, "GroundOverlay"),
         clones |-> clones,
         added |-> in.members \o clones,
         keys |-> [i \in 1..Len(overlays) |-> ExpectedKey(OverlayName(kml_doc, overlays[i]))],
         parseable |-> [i \in 1..Len(overlays) |->
                           HasNumericSuffix(OverlayName(kml_doc, overlays[i]))],
         refs |-> [i \in 1..Len(overlays) |-> HrefText(kml_doc, overlays[i])],
         clone_refs |-> [i \in 1..Len(clones) |-> HrefText(kml_doc, clones[i])]]

UnitRef(in, f) == in.unit \o << "/" >> \o f

(***************************************************************************)
(* C1  Completeness.                                                       *)
(***************************************************************************)
\* C1 as stated: after modify_kml succeeds on N assets, the Group Node holds
\* exactly N Overlay Nodes, whether or not an asset matches the template.
C1_ExactlyN ==
    Succeeded =>
        LET in == Input  out == Output(in)
        IN  Len(out.overlays) = Len(in.assets)

\* C1 amended: the Group Node holds K + N - M Overlay Nodes: its K original
\* overlay children plus one clone for each of the N assets but the one (M
\* is 1 or 0) whose filename is the basename of the template's reference
\* with surrounding whitespace removed.
C1_Completeness ==
    Succeeded =>
        LET in == Input  out == Output(in)
        IN  Len(out.overlays) = Len(in.members) + Len(in.assets) - Cardinality(in.matching)

C1_Witness ==
    /\ Succeeded
    /\ LET in == Input  out == Output(in)
       IN  /\ Len(in.assets) = 2
           /\ in.matching = {}
           /\ Len(in.members) = 1
           /\ Len(out.overlays) = 3

(***************************************************************************)
(* C2  Relinking.                                                          *)
(***************************************************************************)
\* C2: after modify_kml succeeds, every Overlay Node under the Group Node,
\* the reused template included, refers to "<unit name>/<asset filename>" of
\* an input asset, and every input asset is referred to by exactly one node.
C2_Relinking ==
    Succeeded =>
        LET in == Input  out == Output(in)
        IN  /\ \A i \in 1..Len(out.overlays) :
                  \E j \in 1..Len(in.assets) : out.refs[i] = UnitRef(in, in.assets[j])
            /\ \A j \in 1..Len(in.assets) :
                  Cardinality({ i \in 1..Len(out.overlays) :
                                  out.refs[i] = UnitRef(in, in.assets[j]) }) = 1

(***************************************************************************)
(* C4  Ordering.                                                           *)
(***************************************************************************)
\* what C4 says of the order, but for where the unparseable names go
C4_Sorted(in, out) ==
    /\ Len(out.overlays) = Len(out.added)
    /\ Range(out.overlays) = Range(out.added)
    /\ \A i, j \in 1..Len(out.overlays) :
          i < j => /\ NumLeq(out.keys[i], out.keys[j])
                   /\ out.keys[i] = out.keys[j]
                         => Pos(out.added, out.overlays[i]) < Pos(out.added, out.overlays[j])
                   /\ (~out.parseable[i] /\ ~out.parseable[j])
                         => Pos(out.added, out.overlays[i]) < Pos(out.added, out.overlays[j])
    \* the clones were added in the order of the input assets
    /\ \A a, b \in 1..Len(out.clones) :
          (a < b /\ out.clone_refs[a] # << >>) =>
              \E x, y \in 1..Len(in.assets) :
                  /\ x < y
                  /\ out.clone_refs[a] = UnitRef(in, in.assets[x])
                  /\ out.clone_refs[b] = UnitRef(in, in.assets[y])

\* C4 as stated: after modify_kml succeeds the overlays of the Group Node are
\* in non-decreasing Sort Key order, equal keys in the order they were added,
\* and the overlays with no parseable numeric suffix come after all the
\* parseable ones, in their original relative order.
C4_UnparseableLast ==
    Succeeded =>
        LET in == Input  out == Output(in)
        IN  /\ C4_Sorted(in, out)
            /\ \A i, j \in 1..Len(out.overlays) :
                  (~out.parseable[i] /\ out.parseable[j]) => j < i

\* C4 amended: ... the overlays with no parseable numeric suffix come after
\* all the parseable ones whose numeric suffix is below the sentinel
\* 999999999, in their original relative order.
C4_Ordering ==
    Succeeded =>
        LET in == Input  out == Output(in)
        IN  /\ C4_Sorted(in, out)
            /\ \A i, j \in 1..Len(out.overlays) :
                  (/\ ~out.parseable[i]
                   /\ out.parseable[j]
                   /\ NumLess(out.keys[j], ToNum(Sentinel))) => j < i

C4_Witness ==
    /\ Succeeded
    /\ LET in == Input  out == Output(in)
       IN  /\ Len(out.overlays) = 3
           /\ Len(out.clones) = 2
           /\ ~out.parseable[3]
           /\ out.parseable[1]
           /\ out.keys[1] = out.keys[2]
           /\ out.overlays[1] < out.overlays[2]
           /\ out.overlays[3] < out.overlays[2]

(***************************************************************************)
(* C7  Group naming.                                                       *)
(***************************************************************************)
\* C7: after modify_kml succeeds the active Group Node (first Document, else
\* first Folder, else a new Document) has a name field whose text is the unit
\* name, whether the field existed or not; with a Folder and no Document in
\* the input the group is that Folder and no Document is created.
C7_GroupNaming ==
    Succeeded =>
        LET in == Input
            name_el == find_child(kml_doc, in.group, "name")
        IN  /\ name_el # 0
            /\ kml_doc.text[name_el] = Unit.name
            /\ in.document # 0 => kml_doc.tag[in.group] = "Document"
            /\ (in.document = 0 /\ in.folder # 0) =>
                  /\ kml_doc.tag[in.group] = "Folder"
                  /\ findall_desc(kml_doc, Root, "Document") = << >>
            /\ (in.document = 0 /\ in.folder = 0) =>
                  /\ kml_doc.tag[in.group] = "Document"
                  /\ IsChild(kml_doc, Root, in.group)

C7_Witness ==
    /\ Succeeded
    /\ LET in == Input
           old == find_child(in.tree, in.folder, "name")
       IN  /\ in.document = 0
           /\ in.folder # 0
           /\ old # 0
           /\ in.tree.text[old] # Unit.name
           /\ kml_doc.text[old] = Unit.name

(***************************************************************************)
(* C8  Synthesis.                                                          *)
(***************************************************************************)
\* C8: given a document with overlays and no Document or Folder, modify_kml
\* produces exactly one Group Node, a new Document under the root, and every
\* original and every cloned overlay is a child of it and of nothing else.
C8_Synthesis ==
    (ModifyOver /\ Unit.xml_ok /\ Unit.refused = {}) =>
        LET in == Input
        IN  (in.overlays # << >> /\ in.document = 0 /\ in.folder = 0) =>
              /\ Succeeded
              /\ LET out == Output(in)
                 IN  /\ findall_desc(kml_doc, Root, "Document") = << in.group >>
                     /\ findall_desc(kml_doc, Root, "Folder") = << >>
                     /\ IsChild(kml_doc, Root, in.group)
                     /\ Range(out.all) = Range(in.overlays) \cup Range(out.clones)
                     /\ \A n \in 1..Len(kml_doc.tag) :
                           \A i \in 1..Len(out.all) :
                               IsChild(kml_doc, n, out.all[i]) <=> n = in.group

(***************************************************************************)
(* C5  Cleanup, C6  failure isolation, C9  missing asset.                  *)
(***************************************************************************)
\* process_subfolder has got as far as making the unit's working directory
WorkDirMade(u) == files_ending(u, DotKmz) # << >> /\ png_files_abs_of(u) # << >>

\* processing of the current unit has ended: process_subfolder has returned
\* or an exception has left it
UnitEnded == pc \in { "ps_ret", "main_except" }

\* C5: on every exit path of process_subfolder after the working directory
\* was made, the working directory no longer exists when the unit ends.
C5_Cleanup == (UnitEnded /\ WorkDirMade(Unit)) => idx \notin temp_dirs

\* the only failures in the batch are input-shape errors and documents that
\* do not parse: no unreadable archive, no disk error, no other exception
OnlyParseFailures ==
    \A k \in 1..Len(units) :
        /\ units[k].zip_ok
        /\ units[k].refused = {}
        /\ units[k].pack_error = "none"
        /\ (units[k].xml_ok /\ WorkDirMade(units[k]) /\ units[k].has_kml)
              => modify_kml(units[k], png_files_abs_of(units[k]), units[k].name).outcome
                     \in { "True", "False" }

\* the user chose a main folder and an output folder
FoldersChosen == dialog[1] # "warning"

\* C6: a unit whose document does not parse is skipped and not counted, the
\* loop still processes every remaining unit, and the final count is the
\* number of units that succeeded.
C6_Isolation ==
    (pc = "exit" /\ FoldersChosen /\ units # << >> /\ OnlyParseFailures) =>
        /\ processed = 1..Len(units)
        /\ dialog = << "done", Cardinality(out_kmz) >>

\* C9: an asset that is no file at copy time still has its Overlay Node with
\* reference "<unit name>/<asset filename>", is not copied, the other assets
\* are copied, and the unit is reported as a success.
C9_MissingAsset ==
    (pc = "ps_ret" /\ WorkDirMade(Unit) /\ Unit.missing # {} /\ Unit.zip_ok /\ Unit.has_kml
        /\ Unit.xml_ok /\ Unit.refused = {} /\ Unit.pack_error = "none") =>
        LET in == Input
        IN  in.overlays # << >> =>
              /\ ret = TRUE
              /\ LET out == Output(in)
                 IN  \A j \in 1..Len(in.assets) :
                        IF in.assets[j] \in Unit.missing
                        THEN /\ in.assets[j] \notin copied
                             /\ \E i \in 1..Len(out.all) :
                                   HrefText(kml_doc, out.all[i]) = UnitRef(in, in.assets[j])
                        ELSE in.assets[j] \in copied

(***************************************************************************)
(* C10  Sort Key extraction.                                               *)
(***************************************************************************)
\* C10 as stated: for every display name, parse_trailing_number splits on
\* the last '-' and returns a value: the sentinel for an empty name, a name
\* with no separator, with nothing after the last separator, or whose
\* remainder does not start with a digit; otherwise the integer value of the
\* maximal leading digit run of the remainder.
C10_SortKey == pc = "parsed" => (err = "none" /\ key = ExpectedKey(name_str))

=============================================================================
